---- MODULE Spec2Model ----
(***************************************************************************)
(* Model of mm1.py: an event-driven simulation of an M|M|1 queue.          *)
(*                                                                         *)
(* Time is modelled in integer units.  A uniform draw U in [0,1) is        *)
(* represented by the integer E that stands for -ln(1 - U) (E = 0 is the   *)
(* draw U = 0); newLifetime divides it by the rate of the event, as the    *)
(* code does.  Every E is even, so that the division by the rates of       *)
(* RateSet is exact.                                                       *)
(*                                                                         *)
(* The program computes its times in IEEE doubles.  Whole numbers of time  *)
(* units are exact in a double, and so are their sums and differences.     *)
(* The smallest positive draw, U = 2^-53, gives lifetimes of 2^-53 and     *)
(* 2^-54 time units; a value with such a part is held as described under   *)
(* "doubles" below, and additions and subtractions round it as the         *)
(* hardware does.                                                          *)
(***************************************************************************)
EXTENDS Integers, Sequences, FiniteSets, TLC

\* ------------------------------------------------------------------ bounds
MaxDraw == 2
MaxEvents == 5
MaxLimit == 2
MaxReEvents == 2

DrawSet == {2 * k : k \in 0..MaxDraw}
RateSet == {-1, 0, 1, 2}
LimitSet == 0..MaxLimit

VARIABLES
  Lambda, MU, LIMIT_SWITCH, LIMIT_VALUE,   \* the configuration (argv)
  hashOrder,          \* iteration order of a set of event names in this process
  QUEUE, EVENTHEAP, arrivals, departures,  \* module globals
  departureCount, times, queues, arrivalCountArray, new_event, \* locals of runSimulation
  u, L, S,            \* the statistics of runSimulation
  pc,                 \* "module", "loop", "stopped", "returned", "error"
  drawn,              \* number of draws this run has taken from the random source
  stream,             \* the draws the random source has produced so far
  invocation,         \* number of calls of runSimulation made so far
  twin                \* a second run of the program fed by the same random source

vars == <<Lambda, MU, LIMIT_SWITCH, LIMIT_VALUE, hashOrder, QUEUE, EVENTHEAP,
          arrivals, departures, departureCount, times, queues,
          arrivalCountArray, new_event, u, L, S, pc, drawn, stream,
          invocation, twin>>

config == <<Lambda, MU, LIMIT_SWITCH, LIMIT_VALUE, hashOrder>>

\* ------------------------------------------------------------------ doubles
\* The double w + k * 2^-54, with w a whole number of time units and k a
\* small number of units of 2^-54, is held as the one integer w + k * Fine
\* (|w| < Fine / 2).  A whole number of time units is held as itself.
Fine == 1024

Whole(v) == ((v + Fine \div 2) % Fine) - Fine \div 2

Ulps(v) == (v - Whole(v)) \div Fine

Abs(x) == IF x < 0 THEN -x ELSE x

RECURSIVE Log2(_)
\* the binary exponent of a whole number a >= 1
Log2(a) == IF a < 2 THEN 0 ELSE 1 + Log2(a \div 2)

RECURSIVE Pow2(_)
Pow2(e) == IF e = 0 THEN 1 ELSE 2 * Pow2(e - 1)

Sign(x) == IF x < 0 THEN -1 ELSE 1

\* the distance, in units of 2^-54, between the doubles next to the whole
\* number a >= 1 on the side of a + k * 2^-54: doubles in [2^e, 2^(e+1)) are
\* 2^(e-52) apart, those just below 2^e half as far
Spacing(a, k) ==
  IF k < 0 /\ a = Pow2(Log2(a)) THEN 2 * Pow2(Log2(a)) ELSE 4 * Pow2(Log2(a))

\* the multiple of s nearest to k, a tie going to the even multiple (the
\* double with the even mantissa)
Nearest(k, s) ==
  IF 2 * (k % s) < s THEN (k \div s) * s
  ELSE IF 2 * (k % s) > s THEN (k \div s + 1) * s
  ELSE IF (k \div s) % 2 = 0 THEN (k \div s) * s
  ELSE (k \div s + 1) * s

\* the double nearest to w + k * 2^-54, for a whole number w # 0
RoundAt(w, k) ==
  w + Sign(w) * Nearest(Sign(w) * k, Spacing(Abs(w), Sign(w) * k)) * Fine

\* the double nearest to the exact value v; below one time unit every small
\* multiple of 2^-54 is a double
Round(v) ==
  IF Whole(v) = 0 \/ Ulps(v) = 0 THEN v ELSE RoundAt(Whole(v), Ulps(v))

\* x + y and x - y of two doubles
fadd(x, y) == Round(x + y)

fsub(x, y) == Round(x - y)

\* x < y of two doubles
flt(x, y) == Whole(x) < Whole(y) \/ (Whole(x) = Whole(y) /\ Ulps(x) < Ulps(y))

\* -log(1 - U) for the smallest positive draw U = 2^-53: 2^-53 time units
TinyDraw == 2 * Fine

FineDrawSet == DrawSet \cup {TinyDraw}

\* ------------------------------------------------------- tables (lines 36-38)
rates == [e \in {"a", "d"} |-> IF e = "a" THEN Lambda ELSE MU]

infeasibleAll == {"INIT"}

feasibleAll == {"a", "d"}

\* the table without its entry 0:['d']
infeasibleAt_NoOverride(q) == {}

\* infeasibleEvents[QUEUE], with the [] default of lines 71-74
infeasibleAt(q) == IF q = 0 THEN {"d"} ELSE {}

\* feasibleEvents[QUEUE]: always the [] default of lines 67-70
feasibleAt(q) == {}

HashOrders == {<<"a", "d">>, <<"d", "a">>}

NoEvent == <<0, "none">>

\* ------------------------------------------------------------ tuple ordering
\* Python compares the (time, event) tuples lexicographically; 'INIT' < 'a' < 'd'
Rank(e) == IF e = "INIT" THEN 0 ELSE IF e = "a" THEN 1 ELSE 2

\* the tuple order with the lifetimes compared the wrong way round
TupleLt_Reversed(x, y) ==
  flt(y[1], x[1]) \/ (x[1] = y[1] /\ Rank(x[2]) < Rank(y[2]))

TupleLt(x, y) ==
  flt(x[1], y[1]) \/ (x[1] = y[1] /\ Rank(x[2]) < Rank(y[2]))

\* ------------------------------------------------------------------- heapq
At(h, i) == h[i + 1]

Put(h, i, x) == [h EXCEPT ![i + 1] = x]

RECURSIVE siftdownLoop(_, _, _, _)
siftdownLoop(heap, startpos, pos, newitem) ==
  IF pos > startpos
  THEN LET parentpos == (pos - 1) \div 2
           parent == At(heap, parentpos)
       IN  IF TupleLt(newitem, parent)
           THEN siftdownLoop(Put(heap, pos, parent), startpos, parentpos, newitem)
           ELSE Put(heap, pos, newitem)
  ELSE Put(heap, pos, newitem)

siftdown(heap, startpos, pos) == siftdownLoop(heap, startpos, pos, At(heap, pos))

RECURSIVE siftupLoop(_, _, _, _)
siftupLoop(heap, startpos, pos, newitem) ==
  LET endpos == Len(heap)
      childpos == 2 * pos + 1
  IN  IF childpos < endpos
      THEN LET rightpos == childpos + 1
               c == IF rightpos < endpos
                       /\ ~TupleLt(At(heap, childpos), At(heap, rightpos))
                    THEN rightpos ELSE childpos
           IN  siftupLoop(Put(heap, pos, At(heap, c)), startpos, c, newitem)
      ELSE siftdown(Put(heap, pos, newitem), startpos, pos)

siftup(heap, pos) == siftupLoop(heap, pos, pos, At(heap, pos))

\* a push that appends without restoring the heap order
heappush_Append(heap, item) == Append(heap, item)

heappush(heap, item) == siftdown(Append(heap, item), 0, Len(heap))

\* the item heappop returns
heappopItem(heap) == heap[1]

\* the heap heappop leaves
heappopRest(heap) ==
  LET lastelt == heap[Len(heap)]
      h == SubSeq(heap, 1, Len(heap) - 1)
  IN  IF h # <<>> THEN siftup(Put(h, 0, lastelt), 0) ELSE h

\* ------------------------------------------------------------- the generator
\* the lifetime without the leading minus sign
LifetimeAtRate_NoMinus(r, e) == IF r < 0 THEN e \div (-r) ELSE -(e \div r)

\* -1/rates[event]*log(1 - U), with e standing for -log(1 - U); rate # 0.
\* A draw is a whole number or TinyDraw, and 1/rate is a power of two, so the
\* product is exact.
LifetimeAtRate(r, e) == IF r < 0 THEN -(e \div (-r)) ELSE e \div r

\* the lifetime of every clock drawn at the arrival rate
newLifetime_ArrivalRate(event, e) == LifetimeAtRate(rates["a"], e)

newLifetime(event, e) == LifetimeAtRate(rates[event], e)

\* ------------------------------------------------------------- updateState
\* line 55 treating every event that is not an arrival as a departure
updateState_ElseDeparture(event, q) ==
  q + (IF event[2] = "a" THEN 1 ELSE -1)

updateState(event, q) ==
  q + (IF event[2] = "a" THEN 1 ELSE 0) - (IF event[2] = "d" THEN 1 ELSE 0)

\* ---------------------------------------------------- updateFeasibleEvents
\* line 76 without the subtraction of the fired lifetime
residualHeap_NoSubtract(heap, q, outgoing) ==
  SelectSeq(heap, LAMBDA c : c[2] \notin infeasibleAt(q))

RECURSIVE residualHeap(_, _, _)
\* line 76: subtract the fired lifetime, drop the clocks infeasible at q
residualHeap(heap, q, outgoing) ==
  IF heap = <<>> THEN <<>>
  ELSE LET c == Head(heap)
           rest == residualHeap(Tail(heap), q, outgoing)
       IN  IF c[2] \notin infeasibleAt(q)
           THEN <<(<<fsub(c[1], outgoing[1]), c[2]>>)>> \o rest
           ELSE rest

\* line 77 forgetting the surviving clocks
residualEvents_None(heap) == {}

\* line 77
residualEvents(heap) == {heap[i][2] : i \in 1..Len(heap)}

\* line 79 without the subtraction of the infeasible events
newClockSet_KeepInfeasible(heap, q) ==
  (feasibleAt(q) \cup feasibleAll) \ residualEvents(heap)

\* line 79: the set the loop runs over
newClockSet(heap, q) ==
  ((feasibleAt(q) \cup feasibleAll) \ residualEvents(heap))
     \ (infeasibleAt(q) \cup infeasibleAll)

InSet(S0, e) == e \in S0

\* line 79: the order in which the loop visits that set
newClockOrder(heap, q, order) ==
  LET S0 == newClockSet(heap, q)
  IN  SelectSeq(order, LAMBDA e : InSet(S0, e))

\* number of clocks pushed before a zero rate raises ZeroDivisionError
RECURSIVE pushable(_)
pushable(evs) ==
  IF evs = <<>> THEN 0
  ELSE IF rates[Head(evs)] = 0 THEN 0 ELSE 1 + pushable(Tail(evs))

RECURSIVE pushClocks(_, _, _, _)
\* lines 79-80: push the first n new clocks, drawing their lifetimes from ds
pushClocks(heap, evs, ds, n) ==
  IF n = 0 THEN heap
  ELSE pushClocks(heappush(heap, <<newLifetime(Head(evs), Head(ds)), Head(evs)>>),
                  Tail(evs), Tail(ds), n - 1)

\* lines 81-84
recordTime(ts, outgoing) ==
  IF ts = <<>> THEN Append(ts, outgoing[1])
  ELSE Append(ts, fadd(ts[Len(ts)], outgoing[1]))

\* lines 85-86 appending the lifetime of the event instead of its time
recordArrival_Lifetime(ts, arr, outgoing) ==
  IF ts # <<>> /\ outgoing[2] = "a" THEN Append(arr, outgoing[1]) ELSE arr

\* lines 85-86
recordArrival(ts, arr, outgoing) ==
  IF ts # <<>> /\ outgoing[2] = "a"
  THEN Append(arr, fadd(ts[Len(ts)], outgoing[1])) ELSE arr

\* lines 87-88 taken out of the else branch of line 83
recordDeparture_Unguarded(ts, dep, outgoing) ==
  IF outgoing[2] # "a"
  THEN Append(dep, fadd(IF ts = <<>> THEN 0 ELSE ts[Len(ts)], outgoing[1]))
  ELSE dep

\* lines 87-88
recordDeparture(ts, dep, outgoing) ==
  IF ts # <<>> /\ outgoing[2] # "a"
  THEN Append(dep, fadd(ts[Len(ts)], outgoing[1])) ELSE dep

\* ------------------------------------------------------------ runSimulation
\* lines 109-114 with > for >= in the departure test
stopCondition_PastBound(dc, ts) ==
  IF LIMIT_SWITCH # 0 THEN dc > LIMIT_VALUE
  ELSE ~flt(ts[Len(ts)], LIMIT_VALUE)

\* lines 109-114 with > for >= in the time test
stopCondition_Strict(dc, ts) ==
  IF LIMIT_SWITCH # 0 THEN dc >= LIMIT_VALUE
  ELSE flt(LIMIT_VALUE, ts[Len(ts)])

\* lines 109-114
stopCondition(dc, ts) ==
  IF LIMIT_SWITCH # 0 THEN dc >= LIMIT_VALUE
  ELSE ~flt(ts[Len(ts)], LIMIT_VALUE)

\* what one pass of the loop body will do to run st, before any draw is made
Plan(st, order) ==
  LET ev == heappopItem(st.EVENTHEAP)
      q == updateState(ev, st.QUEUE)
      surv == residualHeap(heappopRest(st.EVENTHEAP), q, ev)
      evs == newClockOrder(surv, q, order)
  IN  [ev |-> ev, q |-> q, surv |-> surv, evs |-> evs, n |-> pushable(evs)]

\* draws the random source must have produced for run st to finish one pass
Needed(st, order) ==
  IF st.pc = "loop" /\ st.EVENTHEAP # <<>>
  THEN st.drawn + Plan(st, order).n ELSE 0

\* one pass of the loop body (lines 100-114) on run st, reading strm
Iterate(st, order, strm) ==
  IF st.EVENTHEAP = <<>>
  THEN [st EXCEPT !.pc = "error"]
  ELSE
  LET p == Plan(st, order)
      ev == p.ev
      dc == IF ev[2] = "d" THEN st.departureCount + 1 ELSE st.departureCount
      aca == IF ev[2] = "d" THEN Append(st.arrivalCountArray, 0)
             ELSE IF ev[2] = "a" THEN Append(st.arrivalCountArray, 1)
             ELSE st.arrivalCountArray
      ds == SubSeq(strm, st.drawn + 1, st.drawn + p.n)
      heap == pushClocks(p.surv, p.evs, ds, p.n)
      raised == p.n < Len(p.evs)
      ts == IF raised THEN st.times ELSE recordTime(st.times, ev)
  IN  [QUEUE |-> p.q,
       EVENTHEAP |-> heap,
       arrivals |-> IF raised THEN st.arrivals
                    ELSE recordArrival(st.times, st.arrivals, ev),
       departures |-> IF raised THEN st.departures
                      ELSE recordDeparture(st.times, st.departures, ev),
       departureCount |-> dc,
       times |-> ts,
       queues |-> Append(st.queues, p.q),
       arrivalCountArray |-> aca,
       new_event |-> ev,
       pc |-> IF raised THEN "error"
              ELSE IF stopCondition(dc, ts) THEN "stopped" ELSE "loop",
       drawn |-> st.drawn + p.n]

\* the state of a run at the top of runSimulation (lines 40-44, 95-98)
FreshRun(p) ==
  [QUEUE |-> 0, EVENTHEAP |-> <<(<<0, "INIT">>)>>,
   arrivals |-> <<>>, departures |-> <<>>,
   departureCount |-> 0, times |-> <<>>, queues |-> <<>>,
   arrivalCountArray |-> <<0>>, new_event |-> NoEvent, pc |-> p, drawn |-> 0]

Cur ==
  [QUEUE |-> QUEUE, EVENTHEAP |-> EVENTHEAP,
   arrivals |-> arrivals, departures |-> departures,
   departureCount |-> departureCount, times |-> times, queues |-> queues,
   arrivalCountArray |-> arrivalCountArray, new_event |-> new_event,
   pc |-> pc, drawn |-> drawn]

SetRun(n) ==
  /\ QUEUE' = n.QUEUE
  /\ EVENTHEAP' = n.EVENTHEAP
  /\ arrivals' = n.arrivals
  /\ departures' = n.departures
  /\ departureCount' = n.departureCount
  /\ times' = n.times
  /\ queues' = n.queues
  /\ arrivalCountArray' = n.arrivalCountArray
  /\ new_event' = n.new_event
  /\ pc' = n.pc
  /\ drawn' = n.drawn

Max(a, b) == IF a >= b THEN a ELSE b

\* the streams that extend s to length n with draws of D (s itself when it
\* is long enough)
RECURSIVE Extend(_, _, _)
Extend(s, n, D) ==
  IF Len(s) >= n THEN {s}
  ELSE UNION {Extend(Append(s, e), n, D) : e \in D}

\* ------------------------------------------------------------- statistics
\* the statistics are modelled for paths whose times are whole numbers of
\* time units, where the sums and products of lines 119-120 are exact
RECURSIVE Sum(_)
Sum(s) == IF s = <<>> THEN 0 ELSE Head(s) + Sum(Tail(s))

\* np.diff
diff(s) == [i \in 1..(Len(s) - 1) |-> s[i + 1] - s[i]]

\* qarray[:-1]
allButLast(s) == SubSeq(s, 1, Len(s) - 1)

\* elementwise product of two arrays of the same length
product(a, b) == [i \in 1..Len(a) |-> a[i] * b[i]]

\* line 120
area(ts, qs) == Sum(product(allButLast(qs), diff(ts)))

RECURSIVE GCD(_, _)
GCD(a, b) == IF b = 0 THEN a ELSE GCD(b, a % b)

NoValue == [kind |-> "none", n |-> 0, d |-> 0]

\* numpy's x / y: a quotient (kept as a reduced fraction), or nan / inf when
\* y = 0 (numpy warns and does not raise)
divide(x, y) ==
  IF y = 0
  THEN IF x = 0 THEN [kind |-> "nan", n |-> 0, d |-> 0]
       ELSE [kind |-> "inf", n |-> IF x < 0 THEN -1 ELSE 1, d |-> 0]
  ELSE LET g == GCD(Abs(x), Abs(y))
           sg == IF y < 0 THEN -1 ELSE 1
       IN  [kind |-> "num", n |-> sg * (x \div g), d |-> sg * (y \div g)]

\* -------------------------------------------------------------------- Init
NoTwin == [FreshRun("off") EXCEPT !.EVENTHEAP = <<>>, !.arrivalCountArray = <<>>]

TwinOff == [run |-> NoTwin, hashOrder |-> <<"a", "d">>]

InitRun ==
  /\ Lambda \in RateSet
  /\ MU \in RateSet
  /\ LIMIT_SWITCH \in {0, 1}
  /\ LIMIT_VALUE \in LimitSet
  /\ hashOrder \in HashOrders
  /\ QUEUE = 0
  /\ EVENTHEAP = <<>>
  /\ arrivals = <<>>
  /\ departures = <<>>
  /\ departureCount = 0
  /\ times = <<>>
  /\ queues = <<>>
  /\ arrivalCountArray = <<>>
  /\ new_event = NoEvent
  /\ u = 0
  /\ L = NoValue
  /\ S = NoValue
  /\ pc = "module"
  /\ drawn = 0
  /\ stream = <<>>
  /\ invocation = 0

Init == InitRun /\ twin = TwinOff

\* ----------------------------------------------------------------- actions
\* lines 34-44 and 95-98: the module body, then the entry of runSimulation
Start ==
  /\ pc = "module"
  /\ IF MU = 0
     THEN /\ pc' = "error"        \* rho = Lambda/MU raises ZeroDivisionError
          /\ UNCHANGED <<QUEUE, EVENTHEAP, arrivals, departures, departureCount,
                         times, queues, arrivalCountArray, new_event, drawn,
                         invocation, twin>>
     ELSE /\ SetRun(FreshRun("loop"))
          /\ invocation' = 1
          /\ twin' = IF twin.run.pc = "off" THEN twin
                     ELSE [twin EXCEPT !.run = FreshRun("loop")]
  /\ UNCHANGED <<config, u, L, S, stream>>

\* lines 100-114: one pass of the loop of runSimulation, the generator
\* producing draws of D; a twin run, when there is one, makes its own pass on
\* the same stream of draws
Pass(D) ==
  /\ pc = "loop"
  /\ Len(queues) < (IF invocation <= 1 THEN MaxEvents ELSE MaxReEvents)
  /\ \E s \in Extend(stream, Max(Needed(Cur, hashOrder),
                                 Needed(twin.run, twin.hashOrder)), D) :
        /\ stream' = s
        /\ SetRun(Iterate(Cur, hashOrder, s))
        /\ twin' = IF twin.run.pc = "loop"
                   THEN [twin EXCEPT !.run = Iterate(twin.run, twin.hashOrder, s)]
                   ELSE twin
  /\ UNCHANGED <<config, u, L, S, invocation>>

LoopIteration == Pass(DrawSet)

\* lines 116-123
Statistics ==
  /\ pc = "stopped"
  /\ u' = area(times, queues)
  /\ L' = divide(area(times, queues), times[Len(times)])
  /\ S' = divide(area(times, queues), Len(arrivals))
  /\ pc' = "returned"
  /\ UNCHANGED <<config, QUEUE, EVENTHEAP, arrivals, departures, departureCount,
                 times, queues, arrivalCountArray, new_event, drawn, stream,
                 invocation, twin>>

Next == Start \/ LoopIteration \/ Statistics

Spec == Init /\ [][Next]_vars

\* ------------------------------------------------- two runs, one draw stream
InitPair ==
  /\ InitRun
  /\ \E o \in HashOrders : twin = [run |-> FreshRun("module"), hashOrder |-> o]

\* the twin run goes on after this run has left its loop
TwinIteration ==
  /\ pc \in {"stopped", "returned"}
  /\ twin.run.pc = "loop"
  /\ Len(twin.run.queues) < MaxEvents
  /\ \E s \in Extend(stream, Needed(twin.run, twin.hashOrder), DrawSet) :
        /\ stream' = s
        /\ twin' = [twin EXCEPT !.run = Iterate(twin.run, twin.hashOrder, s)]
  /\ UNCHANGED <<config, QUEUE, EVENTHEAP, arrivals, departures, departureCount,
                 times, queues, arrivalCountArray, new_event, u, L, S, pc, drawn,
                 invocation>>

NextPair == Next \/ TwinIteration

SpecPair == InitPair /\ [][NextPair]_vars

\* ------------------------------------------- runSimulation called once more
\* lines 95-98 on a second call in the same process: the locals are created
\* anew, the module globals of lines 40-44 are not assigned again
Reinvoke ==
  /\ pc = "returned"
  /\ invocation = 1
  /\ departureCount' = 0
  /\ times' = <<>>
  /\ queues' = <<>>
  /\ arrivalCountArray' = <<0>>
  /\ new_event' = NoEvent
  /\ pc' = "loop"
  /\ invocation' = 2
  /\ UNCHANGED <<config, QUEUE, EVENTHEAP, arrivals, departures, u, L, S,
                 drawn, stream, twin>>

NextReinvoke == Next \/ Reinvoke

SpecReinvoke == Init /\ [][NextReinvoke]_vars

\* ----------------------------- the loop with the smallest draw of the generator
\* lines 100-114, the generator producing U = 2^-53 as well
FineIteration == Pass(FineDrawSet)

\* the program up to the end of the loop of runSimulation
NextFine == Start \/ FineIteration

SpecFine == Init /\ [][NextFine]_vars

\* ==================================================================== claims
Count(heap, e) == Cardinality({i \in 1..Len(heap) : heap[i][2] = e})

\* at least one pass of the loop has completed (updateFeasibleEvents returned)
Reconciled == pc \in {"loop", "stopped", "returned"} /\ times # <<>>

Stopped == pc \in {"stopped", "returned"}

ValidRates == Lambda > 0 /\ MU > 0

ValidBound == LIMIT_VALUE > 0

InvalidConfig == ~(ValidRates /\ ValidBound)

\* C1: after every completed call of updateFeasibleEvents EVENTHEAP holds
\* exactly one clock for 'a', exactly one clock for 'd' if and only if
\* QUEUE > 0, and no other clock.
C1_Feasibility ==
  Reconciled =>
    /\ Count(EVENTHEAP, "a") = 1
    /\ Count(EVENTHEAP, "d") = (IF QUEUE > 0 THEN 1 ELSE 0)
    /\ Len(EVENTHEAP) = Count(EVENTHEAP, "a") + Count(EVENTHEAP, "d")

\* a departure has just emptied the queue, and only the arrival clock is left
C1_Witness ==
  /\ Reconciled
  /\ new_event[2] = "d"
  /\ QUEUE = 0
  /\ Len(EVENTHEAP) = 1
  /\ \E i \in 1..Len(queues) : queues[i] = 2

\* C2: QUEUE and every recorded queue length are >= 0.
C2_QueueNonNegative ==
  /\ QUEUE >= 0
  /\ \A i \in 1..Len(queues) : queues[i] >= 0

\* the queue was emptied by a departure and another event has fired since
C2_Witness ==
  /\ Reconciled
  /\ \E i \in 3..Len(queues) : queues[i] = 0 /\ Len(queues) > i

\* C3: in departure-count mode with bound D >= 1 the loop goes on while fewer
\* than D departures have fired, and when it has stopped the last event is a
\* departure and exactly D departure times are recorded.
C3_DepartureStop ==
  (LIMIT_SWITCH = 1 /\ LIMIT_VALUE >= 1) =>
    /\ pc = "loop" => /\ departureCount < LIMIT_VALUE
                      /\ Len(departures) < LIMIT_VALUE
    /\ Stopped => /\ new_event[2] = "d"
                  /\ departureCount = LIMIT_VALUE
                  /\ Len(departures) = LIMIT_VALUE
                  /\ departures[Len(departures)] = times[Len(times)]

\* a run stopped by its second departure
C3_Witness ==
  /\ pc = "stopped"
  /\ LIMIT_SWITCH = 1
  /\ LIMIT_VALUE = 2
  /\ Len(departures) = 2

\* C4: in elapsed-time mode with bound T > 0, when the run has stopped the
\* last recorded time is >= T and every earlier recorded time is < T.
C4_TimeStop ==
  (LIMIT_SWITCH = 0 /\ LIMIT_VALUE > 0 /\ Stopped) =>
    /\ times[Len(times)] >= LIMIT_VALUE
    /\ \A i \in 1..(Len(times) - 1) : times[i] < LIMIT_VALUE

\* a run stopped by time after several events below the bound
C4_Witness ==
  /\ pc = "stopped"
  /\ LIMIT_SWITCH = 0
  /\ LIMIT_VALUE > 0
  /\ Len(times) >= 4
  /\ times[Len(times) - 1] > 0

\* C5 as stated: with positive rates, consecutive recorded times increase
\* strictly.
C5_StrictlyIncreasing ==
  ValidRates => \A i \in 1..(Len(times) - 1) : times[i + 1] > times[i]

\* C5 as amended: with positive rates, consecutive recorded times never
\* decrease.
C5_NonDecreasing ==
  ValidRates => \A i \in 1..(Len(times) - 1) : times[i + 1] >= times[i]

\* a run with positive rates where time advanced at one event and stood
\* still at a later one
C5_Witness ==
  /\ ValidRates
  /\ \E i \in 1..(Len(times) - 1) :
        /\ times[i + 1] > times[i]
        /\ \E j \in (i + 1)..(Len(times) - 1) : times[j + 1] = times[j]

\* C6 as stated: two runs with the same valid configuration, fed the same
\* stream of draws, record identical times and queues.
C6_Determinism ==
  (ValidRates /\ ValidBound /\ Stopped /\ twin.run.pc = "stopped") =>
    /\ times = twin.run.times
    /\ queues = twin.run.queues

\* C7: after every event QUEUE = len(arrivals) - len(departures) and
\* departureCount = len(departures).
C7_CountConsistency ==
  Reconciled =>
    /\ QUEUE = Len(arrivals) - Len(departures)
    /\ departureCount = Len(departures)

\* arrivals and departures have both fired and customers are still queued
C7_Witness ==
  /\ Reconciled
  /\ Len(arrivals) >= 3
  /\ Len(departures) >= 1
  /\ QUEUE >= 1

\* C8 as stated: under an invalid configuration (a non-positive rate or a
\* non-positive bound) no event is popped, nothing is recorded and the run
\* does not stop normally.
C8_ConfigRejected ==
  InvalidConfig =>
    /\ new_event = NoEvent
    /\ queues = <<>>
    /\ times = <<>>
    /\ ~Stopped

\* C9 as stated: runSimulation never returns statistics computed with a total
\* elapsed time of 0 or with no arrival.
C9_DegenerateRejected ==
  pc = "returned" => times[Len(times)] # 0 /\ Len(arrivals) # 0

RECURSIVE AreaUpTo(_)
\* sum over i = 1..k of q_i * (t_{i+1} - t_i)
AreaUpTo(k) ==
  IF k <= 0 THEN 0 ELSE AreaUpTo(k - 1) + queues[k] * (times[k + 1] - times[k])

\* C10 as stated: for a valid configuration the returned u is the sum over
\* all but the last entry of q_i * (t_{i+1} - t_i), L is a number with
\* L * t_last = u, and S is a number with S * len(arrivals) = u.
C10_Statistics ==
  (ValidRates /\ ValidBound /\ pc = "returned") =>
    /\ u = AreaUpTo(Len(times) - 1)
    /\ L.kind = "num" /\ L.n * times[Len(times)] = u * L.d
    /\ S.kind = "num" /\ S.n * Len(arrivals) = u * S.d

\* the configuration of the concrete scenario, every draw so far being c
Scenario(c) ==
  /\ Lambda = 1 /\ MU = 2 /\ LIMIT_SWITCH = 1 /\ LIMIT_VALUE = 1
  /\ \A i \in 1..Len(stream) : stream[i] = c

ScenarioTimes(c) == <<0, c, c + c \div 2>>

ScenarioQueues == <<0, 1, 0>>

\* C11: with LAMBDA = 1, MU = 2, D = 1 and every draw equal to one constant
\* c > 0, exactly three events fire (INIT, arrival, departure), the recorded
\* times are (0, c, 3c/2) and the queue lengths (0, 1, 0), the run then stops,
\* and u = c/2, L = 1/3, S = u.
C11_Scenario ==
  \A c \in DrawSet \ {0} :
    Scenario(c) =>
      /\ pc # "error"
      /\ Len(times) <= 3
      /\ times = SubSeq(ScenarioTimes(c), 1, Len(times))
      /\ queues = SubSeq(ScenarioQueues, 1, Len(queues))
      /\ (pc = "loop" => Len(times) < 3)
      /\ (Stopped => /\ Len(times) = 3
                     /\ arrivals = <<c>>
                     /\ departures = <<c + c \div 2>>
                     /\ new_event = <<c \div 2, "d">>)
      /\ (pc = "returned" => /\ 2 * u = c
                             /\ L = [kind |-> "num", n |-> 1, d |-> 3]
                             /\ S = [kind |-> "num", n |-> u, d |-> 1])

\* the scenario has run to its end and the statistics are computed
C11_Witness ==
  /\ \E c \in DrawSet \ {0} : Scenario(c)
  /\ pc = "returned"
  /\ Len(stream) = 3

\* C12 as stated: for positive rates and a positive bound, when the loop has
\* stopped the final recorded time is > 0 and at least one arrival is recorded.
C12_StatisticsDefined ==
  (ValidRates /\ ValidBound /\ Stopped) =>
    /\ times[Len(times)] > 0
    /\ Len(arrivals) >= 1

\* C12 as amended: for positive rates and a positive bound, when the loop has
\* stopped at least one arrival is recorded (the event after INIT is an
\* arrival), the final recorded time is >= 0, and it is > 0 in elapsed-time
\* mode.
C12_ArrivalsDefined ==
  (ValidRates /\ ValidBound /\ Stopped) =>
    /\ Len(arrivals) >= 1
    /\ arrivals[1] = times[2]
    /\ times[Len(times)] >= 0
    /\ (LIMIT_SWITCH = 0 => times[Len(times)] > 0)

\* a departure-count run that stopped without any time having elapsed
C12_Witness ==
  /\ ValidRates /\ ValidBound /\ Stopped
  /\ LIMIT_SWITCH = 1
  /\ Len(arrivals) >= 1
  /\ times[Len(times)] = 0

\* a pass of the loop that popped an event and ran updateFeasibleEvents to its end
LoopPass == pc = "loop" /\ queues' # queues /\ pc' # "error"

\* the event type is allowed to fire at queue length q
IsFeasible(e, q) == e = "a" \/ (e = "d" /\ q > 0)

\* C13: in every reconciliation step with fired lifetime L, each clock that
\* did not fire and whose event type is still feasible at the new queue
\* length stays in EVENTHEAP with lifetime (old lifetime - L), and it is the
\* only clock of its type (it is not redrawn).
C13_ResidualReuse ==
  [][LoopPass =>
       \A i \in 1..Len(EVENTHEAP) :
          (EVENTHEAP[i] # new_event' /\ IsFeasible(EVENTHEAP[i][2], QUEUE')) =>
             /\ \E j \in 1..Len(EVENTHEAP') :
                   EVENTHEAP'[j] =
                     <<EVENTHEAP[i][1] - new_event'[1], EVENTHEAP[i][2]>>
             /\ Count(EVENTHEAP', EVENTHEAP[i][2]) = 1]_vars

\* an arrival fired after some time while a departure clock was running, and
\* that clock is still pending with a positive residual
C13_Witness ==
  /\ Reconciled
  /\ Len(times) = 3
  /\ QUEUE = 2
  /\ new_event[2] = "a" /\ new_event[1] > 0
  /\ drawn = 4
  /\ \E i \in 1..Len(EVENTHEAP) : EVENTHEAP[i][2] = "d" /\ EVENTHEAP[i][1] > 0

\* C14: at every loop iteration the popped clock has a lifetime <= that of
\* every pending clock, and when an arrival clock and a departure clock have
\* equal lifetimes the pop does not fail and returns the arrival.
C14_MinimumSelection ==
  [][(pc = "loop" /\ queues' # queues) =>
       /\ \E i \in 1..Len(EVENTHEAP) : EVENTHEAP[i] = new_event'
       /\ \A i \in 1..Len(EVENTHEAP) :
             /\ new_event'[1] <= EVENTHEAP[i][1]
             /\ (EVENTHEAP[i][1] = new_event'[1] /\ EVENTHEAP[i][2] = "a")
                  => new_event'[2] = "a"]_vars

\* an arrival clock and a departure clock tied at a positive lifetime: the
\* arrival fired and the departure clock is left with residual 0
C14_Witness ==
  /\ Reconciled
  /\ new_event[2] = "a" /\ new_event[1] > 0
  /\ QUEUE >= 2
  /\ \E i \in 1..Len(EVENTHEAP) : EVENTHEAP[i] = <<0, "d">>

\* every lifetime the generator has returned so far is >= 0, whichever clock
\* each draw went to
FreshNonNegative ==
  \A i \in 1..Len(stream) : \A e \in {"a", "d"} :
     rates[e] # 0 => newLifetime(e, stream[i]) >= 0

\* C15: provided every freshly drawn lifetime is >= 0, every clock in
\* EVENTHEAP and every popped clock has a lifetime >= 0.
C15_NonNegativeLifetimes ==
  FreshNonNegative =>
    /\ \A i \in 1..Len(EVENTHEAP) : EVENTHEAP[i][1] >= 0
    /\ new_event[1] >= 0

\* a clock that survived the subtraction of a positive fired lifetime with a
\* residual of exactly 0
C15_Witness ==
  /\ Reconciled
  /\ FreshNonNegative
  /\ new_event[1] > 0
  /\ Len(EVENTHEAP) = 2
  /\ drawn = Len(times) + 1
  /\ \E i \in 1..Len(EVENTHEAP) : EVENTHEAP[i][1] = 0 /\ EVENTHEAP[i][2] # new_event[2]

\* the number of draws the claim gives to a pass that fired event e with the
\* queue going from q0 to q1
ClaimedDraws(e, q0, q1) ==
  IF e = "a" /\ q0 = 0 THEN 2
  ELSE IF e = "d" /\ q1 = 0 THEN 0
  ELSE 1

\* the fresh clocks of a pass: position k of the draws of the pass went to a
\* clock of type e that is now pending with that lifetime
DrawWentTo(k, e) ==
  \E j \in 1..Len(EVENTHEAP') :
     EVENTHEAP'[j] = <<newLifetime(e, stream'[drawn + k]), e>>

\* C16: each reconciliation step draws exactly once for each event type that
\* is feasible at the new queue length and has no surviving clock, and for no
\* other: 2 draws after an arrival into an empty queue, 0 after a departure
\* that empties the queue, and otherwise exactly 1, for the type that just
\* fired (for the arrival clock in the INIT step).
C16_OneDrawPerNewClock ==
  [][LoopPass =>
       LET e == new_event'[2]
           n == drawn' - drawn
       IN  /\ n = ClaimedDraws(e, QUEUE, QUEUE')
           /\ Len(stream') = drawn'
           /\ Len(EVENTHEAP') = Len(EVENTHEAP) - 1 + n
           /\ (n = 1 => DrawWentTo(1, IF e = "INIT" THEN "a" ELSE e))
           /\ (n = 2 => \/ DrawWentTo(1, "a") /\ DrawWentTo(2, "d")
                        \/ DrawWentTo(1, "d") /\ DrawWentTo(2, "a"))]_vars

\* INIT drew once, the first arrival twice, and the departure that emptied
\* the queue not at all
C16_Witness ==
  /\ Reconciled
  /\ Len(times) = 3
  /\ new_event[2] = "d"
  /\ QUEUE = 0
  /\ drawn = 3

\* C17: INIT is the first event popped and the only INIT ever popped; it
\* leaves QUEUE at 0, records (time 0, queue 0) as the first sample-path
\* entry, appends to neither arrivals nor departures, and no INIT clock is
\* pending afterwards.
C17_InitOnce ==
  /\ (pc = "loop" /\ queues = <<>>) => EVENTHEAP = <<(<<0, "INIT">>)>>
  /\ queues # <<>> =>
       /\ queues[1] = 0
       /\ Count(EVENTHEAP, "INIT") = 0
       /\ (Len(queues) = 1 => /\ new_event = <<0, "INIT">>
                              /\ QUEUE = 0
                              /\ arrivals = <<>>
                              /\ departures = <<>>)
       /\ (Len(queues) > 1 => new_event[2] \in {"a", "d"})
  /\ times # <<>> => times[1] = 0

\* the run went on for several events after INIT
C17_Witness ==
  /\ Reconciled
  /\ Len(times) >= 4
  /\ Len(arrivals) + Len(departures) = Len(times) - 1
  /\ times[1] = 0 /\ queues[1] = 0

\* every draw made so far is strictly positive (and at most TinyDraw or
\* 2 * MaxDraw)
PositiveDraws == \A i \in 1..Len(stream) : flt(0, stream[i])

\* C18 as stated: with positive rates, a positive bound and strictly
\* positive, bounded fresh lifetimes the run eventually reaches STOPPED: a
\* pending departure clock is not postponed for ever by arrivals and recorded
\* time does not stay below T for ever.  So no arrival into a non-empty queue
\* leaves the loop running with the pending clocks, the recorded time and the
\* departure count it had before: at a non-empty queue an arrival pass
\* depends on nothing else, and the same draws would repeat it for ever.
C18_Termination ==
  [][(ValidRates /\ ValidBound /\ PositiveDraws' /\ pc = "loop"
        /\ QUEUE >= 1 /\ queues' # queues) =>
       ~(/\ pc' = "loop"
         /\ new_event'[2] = "a"
         /\ QUEUE' = QUEUE + 1
         /\ EVENTHEAP' = EVENTHEAP
         /\ times'[Len(times')] = times[Len(times)]
         /\ departureCount' = departureCount)]_vars

IsPrefix(s, t) == Len(s) <= Len(t) /\ s = SubSeq(t, 1, Len(s))

\* C19: every completed loop iteration adds exactly one entry to times and
\* to queues and leaves the earlier entries alone, so that both have one
\* entry per event fired; an arrival or a departure appends the time just
\* recorded to arrivals or departures, INIT appends to neither, and
\* len(arrivals) + len(departures) = len(times) - 1.
C19_Bookkeeping ==
  [][/\ IsPrefix(times, times') /\ IsPrefix(queues, queues')
     /\ LoopPass =>
       LET n == Len(times') IN
       /\ n = Len(times) + 1 /\ IsPrefix(times, times')
       /\ Len(queues') = n /\ IsPrefix(queues, queues')
       /\ Len(queues) = Len(times)
       /\ queues'[n] = QUEUE'
       /\ Len(arrivalCountArray') = n
       /\ Len(arrivals') + Len(departures') = n - 1
       /\ arrivals' = IF new_event'[2] = "a"
                      THEN Append(arrivals, times'[n]) ELSE arrivals
       /\ departures' = IF new_event'[2] = "d"
                        THEN Append(departures, times'[n]) ELSE departures]_vars

\* a path of five events with several arrivals and departures recorded
C19_Witness ==
  /\ Reconciled
  /\ Len(times) = 5 /\ Len(queues) = 5
  /\ Len(arrivals) >= 2
  /\ Len(departures) >= 2
  /\ departures[1] > arrivals[1]

\* C20 as stated: under a valid configuration every invocation of
\* runSimulation, a second one included, starts from queue length 0, a
\* pending-clock set holding only the INIT clock with lifetime 0, and empty
\* arrival and departure subsequences.
C20_FreshStart ==
  (ValidRates /\ ValidBound /\ pc = "loop" /\ queues = <<>>) =>
    /\ QUEUE = 0
    /\ EVENTHEAP = <<(<<0, "INIT">>)>>
    /\ arrivals = <<>>
    /\ departures = <<>>

====
